---- MODULE Spec2Model ----
(***************************************************************************)
(* Model of price_api/app.py: the prediction-to-decision pipeline of the   *)
(* Kenyan agro-market price API.                                           *)
(*                                                                         *)
(* Conventions.                                                            *)
(*  - A request string that the code case-converts or strips (commodity,  *)
(*    market, admin1, pricetype) is a sequence of one-character strings,   *)
(*    so that strip/lower/title/capitalize are computed, not assumed.      *)
(*  - Column names, region names and message texts are never converted by  *)
(*    the code and are plain strings.                                      *)
(*  - Prices given in requests are whole KES.  A derived real number is an *)
(*    exact rational [n |-> numerator, d |-> denominator], d > 0; a value  *)
(*    rounded by round(x, k) is an integer count of 10^-k units.           *)
(*    Binary floating-point rounding error is not modelled.                *)
(***************************************************************************)
EXTENDS Integers, Sequences, FiniteSets, TLC

VARIABLES
    model,            \* the loaded ensemble: model.estimators_
    label_encoders,   \* column name -> classes_ of its LabelEncoder
    feature_columns,  \* the ordered column schema
    preprocess_info,  \* [categorical_columns |-> ordered list of columns]
    request,          \* the request being answered: [op, body]
    frame,            \* the handler's local variables when it returned/raised
    response          \* what the handler returned, or the HTTP error raised

artifacts == <<model, label_encoders, feature_columns, preprocess_info>>
vars == <<model, label_encoders, feature_columns, preprocess_info,
          request, frame, response>>

(***************************************************************************)
(* Python str methods, on sequences of characters.                         *)
(***************************************************************************)
ascii_uppercase ==
    <<"A","B","C","D","E","F","G","H","I","J","K","L","M",
      "N","O","P","Q","R","S","T","U","V","W","X","Y","Z">>
ascii_lowercase ==
    <<"a","b","c","d","e","f","g","h","i","j","k","l","m",
      "n","o","p","q","r","s","t","u","v","w","x","y","z">>
whitespace == {" ", "\t", "\n"}

IndexIn(seq, c) == CHOOSE i \in 1..Len(seq) : seq[i] = c
isupper(c) == \E i \in 1..Len(ascii_uppercase) : ascii_uppercase[i] = c
islower(c) == \E i \in 1..Len(ascii_lowercase) : ascii_lowercase[i] = c
isalpha(c) == isupper(c) \/ islower(c)
ch_lower(c) == IF isupper(c) THEN ascii_lowercase[IndexIn(ascii_uppercase, c)] ELSE c
ch_upper(c) == IF islower(c) THEN ascii_uppercase[IndexIn(ascii_lowercase, c)] ELSE c

\* str.lower()
str_lower(s) == [i \in 1..Len(s) |-> ch_lower(s[i])]
\* str.strip(): drop leading and trailing whitespace
str_strip(s) ==
    LET keep == {i \in 1..Len(s) : s[i] \notin whitespace}
    IN  IF keep = {} THEN <<>>
        ELSE LET lo == CHOOSE i \in keep : \A j \in keep : i <= j
                 hi == CHOOSE i \in keep : \A j \in keep : j <= i
             IN  SubSeq(s, lo, hi)
\* str.title(): a letter that follows a non-letter (or starts the string) is
\* upper-cased, every other letter is lower-cased
str_title(s) ==
    [i \in 1..Len(s) |->
        IF i = 1 \/ ~isalpha(s[i - 1]) THEN ch_upper(s[i]) ELSE ch_lower(s[i])]
\* str.capitalize(): first character upper-cased, the rest lower-cased
str_capitalize(s) ==
    [i \in 1..Len(s) |-> IF i = 1 THEN ch_upper(s[i]) ELSE ch_lower(s[i])]

(***************************************************************************)
(* String literals used by the code, the artifacts and the requests.       *)
(***************************************************************************)
s_cabbage  == <<"c","a","b","b","a","g","e">>
s_kale     == <<"k","a","l","e">>
s_onion    == <<"o","n","i","o","n">>
s_potatoes == <<"p","o","t","a","t","o","e","s">>
s_tomatoes == <<"t","o","m","a","t","o","e","s">>
s_retail   == <<"r","e","t","a","i","l">>

s_Cabbage  == <<"C","a","b","b","a","g","e">>
s_Kale     == <<"K","a","l","e">>
s_Onion    == <<"O","n","i","o","n">>
s_Potatoes == <<"P","o","t","a","t","o","e","s">>
s_Tomatoes == <<"T","o","m","a","t","o","e","s">>
s_Retail    == <<"R","e","t","a","i","l">>
s_Wholesale == <<"W","h","o","l","e","s","a","l","e">>
s_Gikomba   == <<"G","i","k","o","m","b","a">>
s_Kongowea  == <<"K","o","n","g","o","w","e","a">>
s_Wakulima  == <<"W","a","k","u","l","i","m","a"," ","(","N","a","i","r","o","b","i",")">>
s_Nairobi   == <<"N","a","i","r","o","b","i">>
s_Coast     == <<"C","o","a","s","t">>

\* request spellings
s_ONION_padded  == <<" ","O","N","I","O","N"," ">>
s_Onions        == <<"O","n","i","o","n","s">>
s_onions        == <<"o","n","i","o","n","s">>
s_tomato        == <<"t","o","m","a","t","o">>
s_irish_potato  == <<"i","r","i","s","h"," ","p","o","t","a","t","o">>
s_banana        == <<"b","a","n","a","n","a">>
s_gikomba       == <<"g","i","k","o","m","b","a">>
s_Wakulima_padded == <<" ">> \o s_Wakulima \o <<" ">>
s_Kibera        == <<"K","i","b","e","r","a">>
s_nairobi       == <<"n","a","i","r","o","b","i">>
s_WHOLESALE     == <<"W","H","O","L","E","S","A","L","E">>
s_bulk          == <<"b","u","l","k">>

(***************************************************************************)
(* Business rules (locked).                                                *)
(***************************************************************************)
CROP_THRESHOLDS ==
    (s_cabbage :> 126) @@ (s_kale :> 50) @@ (s_onion :> 13) @@
    (s_potatoes :> 50) @@ (s_tomatoes :> 64)

ALLOWED_COMMODITIES == DOMAIN CROP_THRESHOLDS

\* DEFAULT_MICRO_MARKET_RADIUS_KM = 50.0, in hundredths of a km
DEFAULT_MICRO_MARKET_RADIUS_KM == 5000

(***************************************************************************)
(* Exact arithmetic.                                                       *)
(***************************************************************************)
Rat(n, d) == [n |-> n, d |-> d]
RLt(a, b)  == a.n * b.d < b.n * a.d
RLeq(a, b) == a.n * b.d <= b.n * a.d
REq(a, b)  == a.n * b.d = b.n * a.d
RSub(a, b) == Rat(a.n * b.d - b.n * a.d, a.d * b.d)
RAbs(a)    == Rat(IF a.n < 0 THEN -a.n ELSE a.n, a.d)

\* floor(n / d) for d > 0
FloorDiv(n, d) == IF n >= 0 THEN n \div d ELSE -((-n + d - 1) \div d)

\* round(n / d) to the nearest integer, ties to the even neighbour
RoundHalfEven(n, d) ==
    LET f == FloorDiv(n, d)
        r == n - f * d
    IN  IF 2 * r < d THEN f
        ELSE IF 2 * r > d THEN f + 1
        ELSE IF f % 2 = 0 THEN f ELSE f + 1

\* round(x, k) for a rational x: the count of 10^-k units
Pow10(k) == IF k = 0 THEN 1 ELSE IF k = 1 THEN 10 ELSE 100
round(x, k) == RoundHalfEven(x.n * Pow10(k), x.d)

(***************************************************************************)
(* Bounds of the model.                                                    *)
(***************************************************************************)
\* largest ensemble size loaded (RandomForestRegressor.n_estimators)
MaxTrees == 21
\* largest number of outlying members in a skewed ensemble
MaxOutliers == 1

(***************************************************************************)
(* The artifacts loaded at import time (joblib.load): the ensemble, the    *)
(* label encoders, the column schema and the preprocessing info.  They are *)
(* data files, so the model draws them from a small set of artifact sets   *)
(* that the training script can produce.                                   *)
(***************************************************************************)
\* A decision tree of depth one over the feature vector: feature is the
\* 0-based column index, as in sklearn's tree_.feature.
Stump(f, t, l, r) == [feature |-> f, threshold |-> t, left |-> l, right |-> r]

\* tree.predict(X)[0]: samples with X[feature] <= threshold go left
tree_predict(tree, X) ==
    IF X[tree.feature + 1] <= tree.threshold THEN tree.left ELSE tree.right

\* the lag price at which the modelled trees split
LagSplit == 50

\* ten members predicting 10, 20, ..., 100 whatever the input, in three
\* different member orders
DecadeOrders ==
    { <<1, 2, 3, 4, 5, 6, 7, 8, 9, 10>>,
      <<10, 9, 8, 7, 6, 5, 4, 3, 2, 1>>,
      <<7, 1, 10, 4, 2, 9, 5, 3, 8, 6>> }
DecadeEnsemble(f, order) ==
    [i \in 1..Len(order) |-> Stump(f, LagSplit, 10 * order[i], 10 * order[i])]

\* n members of which the first k are outliers on the right branch
SkewedEnsemble(f, n, k) ==
    [i \in 1..n |-> IF i <= k THEN Stump(f, LagSplit, 40, 2000)
                              ELSE Stump(f, LagSplit, 40 + i, 60)]

\* two members whose mean is v on the left branch and above v on the right
PairEnsemble(f, v) ==
    <<Stump(f, LagSplit, v + 1, v + 2), Stump(f, LagSplit, v - 1, v + 1)>>

Ensembles(f) ==
    { DecadeEnsemble(f, o) : o \in DecadeOrders }
    \cup { SkewedEnsemble(f, n, k) : n \in 1..MaxTrees, k \in 0..MaxOutliers }
    \cup { PairEnsemble(f, CROP_THRESHOLDS[c]) : c \in ALLOWED_COMMODITIES }

SmallEnsembles(f) ==
    { DecadeEnsemble(f, <<1, 2, 3, 4, 5, 6, 7, 8, 9, 10>>) }
    \cup { PairEnsemble(f, CROP_THRESHOLDS[c]) : c \in ALLOWED_COMMODITIES }

\* LabelEncoder.classes_ is sorted; the code of a value is its 0-based index
FullVocabulary ==
    [commodity |-> <<s_Cabbage, s_Kale, s_Onion, s_Potatoes, s_Tomatoes>>,
     market    |-> <<s_Gikomba, s_Wakulima>>,
     admin1    |-> <<s_Coast, s_Nairobi>>,
     pricetype |-> <<s_Retail, s_Wholesale>>,
     category  |-> <<>>]
\* a training set without kale, and with other markets
PartialVocabulary ==
    [commodity |-> <<s_Cabbage, s_Onion, s_Potatoes, s_Tomatoes>>,
     market    |-> <<s_Gikomba, s_Kongowea>>,
     admin1    |-> <<s_Nairobi>>,
     pricetype |-> <<s_Retail, s_Wholesale>>]

ArtifactSets ==
    { [model           |-> m,
       label_encoders  |-> FullVocabulary,
       feature_columns |-> <<"admin1", "market", "commodity", "pricetype",
                             "month", "price_lag_1">>,
       preprocess_info |-> [categorical_columns |->
                             <<"admin1", "market", "category", "commodity",
                               "pricetype">>]] : m \in Ensembles(5) }
    \cup
    { [model           |-> m,
       label_encoders  |-> PartialVocabulary,
       feature_columns |-> <<"commodity", "market", "pricetype",
                             "price_lag_1", "price_lag_2">>,
       preprocess_info |-> [categorical_columns |->
                             <<"commodity", "market", "admin1",
                               "pricetype">>]] : m \in SmallEnsembles(3) }

(***************************************************************************)
(* Helpers of the handlers.                                                *)
(***************************************************************************)
HTTPException(status_code, detail) ==
    [status_code |-> status_code, detail |-> detail]

InSeq(x, seq) == \E i \in 1..Len(seq) : seq[i] = x

\* A variant of normalize_input that matches market and admin1 against the
\* trained vocabulary without regard to letter case and substitutes the
\* vocabulary's casing; C7_ExactMatchAfterTrim tells it apart from the code.
canonical_casing(col, value) ==
    LET classes_ == label_encoders[col]
        hits == {i \in 1..Len(classes_) : str_lower(classes_[i]) = str_lower(value)}
    IN  IF hits = {} THEN value ELSE classes_[CHOOSE i \in hits : TRUE]
normalize_input_case_insensitive(req) ==
    [commodity |-> str_title(str_strip(req.commodity)),
     pricetype |-> str_capitalize(str_strip(req.pricetype)),
     market    |-> canonical_casing("market", str_strip(req.market)),
     admin1    |-> canonical_casing("admin1", str_strip(req.admin1))]

\* normalize_input(req): (commodity, market, admin1, pricetype)
normalize_input(req) ==
    [commodity |-> str_title(str_strip(req.commodity)),
     pricetype |-> str_capitalize(str_strip(req.pricetype)),
     market    |-> str_strip(req.market),
     admin1    |-> str_strip(req.admin1)]

\* encoder.transform([value])[0]: the 0-based index of value in classes_
\* (a ValueError when value is not a class is handled by the caller)
encoder_transform(classes_, value) == IndexIn(classes_, value) - 1

\* A variant of apply_label_encoding that encodes a value outside the
\* vocabulary as 0 instead of raising; C8_AllOrNothing tells it apart from
\* the code.
RECURSIVE apply_label_encoding_defaulting(_, _)
apply_label_encoding_defaulting(data, i) ==
    LET cols == preprocess_info.categorical_columns IN
    IF i > Len(cols) THEN [raised |-> FALSE, data |-> data]
    ELSE LET col == cols[i] IN
         IF col \in DOMAIN data
         THEN LET encoder == label_encoders[col] IN
              apply_label_encoding_defaulting(
                  [data EXCEPT ![col] =
                      IF InSeq(data[col], encoder)
                      THEN encoder_transform(encoder, data[col]) ELSE 0],
                  i + 1)
         ELSE apply_label_encoding_defaulting(data, i + 1)

\* The label-encoding loop of build_feature_vector from column i on: either
\* the data with every listed column encoded, or the HTTPException raised at
\* the first column whose value is not a class.
RECURSIVE apply_label_encoding(_, _)
apply_label_encoding(data, i) ==
    LET cols == preprocess_info.categorical_columns IN
    IF i > Len(cols) THEN [raised |-> FALSE, data |-> data]
    ELSE LET col == cols[i] IN
         IF col \in DOMAIN data
         THEN LET encoder == label_encoders[col] IN
              IF InSeq(data[col], encoder)
              THEN apply_label_encoding(
                       [data EXCEPT ![col] = encoder_transform(encoder, data[col])],
                       i + 1)
              ELSE [raised |-> TRUE,
                    exception |-> HTTPException(400,
                        <<"Invalid ", col, ": '", data[col],
                          "'. Valid values: ", encoder>>)]
         ELSE apply_label_encoding(data, i + 1)

\* A variant of final_vector that marks a column the builder did not set
\* with -1; C9_SchemaProjection tells it apart from the code.
final_vector_sentinel(data) ==
    [i \in 1..Len(feature_columns) |->
        IF feature_columns[i] \in DOMAIN data THEN data[feature_columns[i]] ELSE -1]

\* the projection of the data map onto the column schema
final_vector(data) ==
    [i \in 1..Len(feature_columns) |->
        IF feature_columns[i] \in DOMAIN data THEN data[feature_columns[i]] ELSE 0]

\* build_feature_vector(req): [raised |-> FALSE, X |-> vector] or
\* [raised |-> TRUE, exception |-> HTTPException]
build_feature_vector(req) ==
    LET n == normalize_input(req)
        data == [price_lag_1 |-> req.previous_month_price,
                 commodity   |-> n.commodity,
                 market      |-> n.market,
                 admin1      |-> n.admin1,
                 pricetype   |-> n.pricetype]
        enc == apply_label_encoding(data, 1)
    IN  IF enc.raised THEN enc
        ELSE [raised |-> FALSE, X |-> final_vector(enc.data)]

RECURSIVE SumSeq(_)
SumSeq(s) == IF s = <<>> THEN 0 ELSE Head(s) + SumSeq(Tail(s))

\* A variant of percentile that interpolates over the samples in member
\* order, without sorting; C10_LinearInterpolation tells it apart from the
\* code.
percentile_unsorted(a, q) ==
    LET n      == Len(a)
        below  == (q * (n - 1)) \div 100
        gamma  == (q * (n - 1)) % 100
        above  == IF below + 1 < n THEN below + 1 ELSE below
    IN  Rat(100 * a[below + 1] + gamma * (a[above + 1] - a[below + 1]), 100)

\* np.percentile(a, q), default (linear) method: over the sorted samples the
\* virtual index is q/100 * (n - 1); the value is interpolated between the
\* two samples that bracket it
percentile(a, q) ==
    LET sorted == SortSeq(a, LAMBDA x, y : x < y)
        n      == Len(a)
        below  == (q * (n - 1)) \div 100
        gamma  == (q * (n - 1)) % 100
        above  == IF below + 1 < n THEN below + 1 ELSE below
    IN  Rat(100 * sorted[below + 1]
              + gamma * (sorted[above + 1] - sorted[below + 1]), 100)

\* rf_confidence(model, X): (mean, low, high, confidence)
rf_confidence(m, X) ==
    LET tree_preds == [i \in 1..Len(m) |-> tree_predict(m[i], X)]
    IN  [mean       |-> Rat(SumSeq(tree_preds), Len(tree_preds)),
         low        |-> percentile(tree_preds, 5),
         high       |-> percentile(tree_preds, 95),
         confidence |-> Rat(90, 100)]

(***************************************************************************)
(* POST /predict                                                           *)
(***************************************************************************)
\* A variant of normalize_commodity that does not lower-case;
\* C6_CaseVariantsOnly tells it apart from the code.
normalize_commodity_case_sensitive(raw) == str_strip(raw)

\* req.commodity.strip().lower()
normalize_commodity(raw) == str_lower(str_strip(raw))

\* A variant of is_unreasonable that also flags a mean equal to the
\* threshold; C3_ThresholdRule tells it apart from the code.
is_unreasonable_inclusive(pred, threshold) == RLeq(Rat(threshold, 1), pred)

\* pred > threshold
is_unreasonable(pred, threshold) == RLt(Rat(threshold, 1), pred)

\* A variant of commodity_not_supported whose detail does not list the
\* allowed commodities; C5_UnsupportedCommodity tells it apart from the code.
commodity_not_supported_bare(req) ==
    HTTPException(400, <<"Commodity '", req.commodity, "' not supported.">>)

commodity_not_supported(req) ==
    HTTPException(400,
        <<"Commodity '", req.commodity, "' not supported. Allowed: ",
          ALLOWED_COMMODITIES>>)

\* predict from the built vector on: the estimate, the threshold check and
\* the response
predict_from_vector(req, commodity_normalized, X) ==
    LET est == rf_confidence(model, X)
        pred == est.mean
        lo == est.low
        hi == est.high
        conf == est.confidence
        threshold == CROP_THRESHOLDS[commodity_normalized]
        unreasonable == is_unreasonable(pred, threshold)
        note == IF unreasonable
                THEN <<" Unreasonable: exceeds normal threshold of ",
                       threshold, " per kg.">>
                ELSE <<"Prediction within normal range.">>
    IN  [frame |-> [commodity_normalized |-> commodity_normalized,
                    X |-> X, pred |-> pred, lo |-> lo, hi |-> hi,
                    conf |-> conf, threshold |-> threshold],
         response |->
           [status_code          |-> 200,
            commodity            |-> req.commodity,
            market               |-> req.market,
            date                 |-> req.date,
            prediction_per_kg    |-> round(pred, 2),
            unit                 |-> "kg",
            market_type          |-> req.pricetype,
            previous_month_price |-> req.previous_month_price,
            confidence_pct       |-> round(Rat(conf.n * 100, conf.d), 0),
            error_margin         |-> <<"+-", round(RSub(hi, pred), 2)>>,
            lower_bound          |-> round(lo, 2),
            upper_bound          |-> round(hi, 2),
            unreasonable         |-> unreasonable,
            note                 |-> note]]

predict(req) ==
    LET commodity_normalized == normalize_commodity(req.commodity) IN
    IF commodity_normalized \notin ALLOWED_COMMODITIES
    THEN [frame    |-> [commodity_normalized |-> commodity_normalized],
          response |-> commodity_not_supported(req)]
    ELSE
    LET built == build_feature_vector(req) IN
    IF built.raised
    THEN [frame    |-> [commodity_normalized |-> commodity_normalized],
          response |-> built.exception]
    ELSE predict_from_vector(req, commodity_normalized, built.X)

(***************************************************************************)
(* POST /recommendations                                                   *)
(***************************************************************************)
\* A variant of previous_price_invalid that guards the division by zero
\* only; C4_PreviousPriceGuard tells it apart from the code.
previous_price_invalid_zero_only(previous_price) == previous_price = 0

\* req.previous_price <= 0
previous_price_invalid(previous_price) == previous_price <= 0

\* ((predicted_price - previous_price) / previous_price) * 100
price_change_pct(predicted_price, previous_price) ==
    Rat((predicted_price - previous_price) * 100, previous_price)

\* A variant of trend_band_index whose band boundaries are inclusive;
\* C2_BandTable tells it apart from the code.
trend_band_index_inclusive(price_change) ==
    IF RLeq(Rat(10, 1), price_change) THEN 1
    ELSE IF RLeq(Rat(5, 1), price_change) THEN 2
    ELSE IF RLeq(price_change, Rat(-10, 1)) THEN 3
    ELSE IF RLeq(price_change, Rat(-5, 1)) THEN 4
    ELSE 5

\* the conditions of the if/elif chain on price_change: the number of the
\* first branch that matches
trend_band_index(price_change) ==
    IF RLt(Rat(10, 1), price_change) THEN 1
    ELSE IF RLt(Rat(5, 1), price_change) THEN 2
    ELSE IF RLt(price_change, Rat(-10, 1)) THEN 3
    ELSE IF RLt(price_change, Rat(-5, 1)) THEN 4
    ELSE 5

\* a predicted drop of more than 10% advises buying, and a stable price is
\* reported with low confidence
trend_band_buy_low(price_change, pricetype) ==
    LET branch == trend_band_index(price_change) IN
    [action_type |-> IF branch <= 2 THEN "sell"
                     ELSE IF branch = 3 THEN "buy" ELSE "hold",
     recommendations |-> << <<"Stable prices expected">>,
                            <<"No urgent action required - normal market conditions">> >>,
     rationale |-> "Price stability expected. Normal selling patterns can continue.",
     confidence |-> IF branch \in {1, 3} THEN "high"
                    ELSE IF branch = 5 THEN "low" ELSE "medium"]

\* the branches of the if/elif chain: the action, the guidance lines, the
\* rationale and the confidence of the matching band
trend_band(price_change, pricetype) ==
    LET branch == trend_band_index(price_change) IN
    IF branch = 1 THEN
        [action_type |-> "sell",
         recommendations |->
            << <<"Predicted price increase of ", round(price_change, 1),
                 "% - consider selling soon">>,
               <<"Market conditions favor sellers">> >>
            \o (IF str_lower(pricetype) = s_retail
                THEN << <<"Retail prices are high - good time to market your produce">> >>
                ELSE << >>),
         rationale |-> "Significant price increase predicted. Selling now or in the near future could maximize returns.",
         confidence |-> "high"]
    ELSE IF branch = 2 THEN
        [action_type |-> "sell",
         recommendations |->
            << <<"Moderate price increase of ", round(price_change, 1),
                 "% expected">>,
               <<"Consider selling within the next few days">> >>,
         rationale |-> "Moderate price increase expected. Timing the market in the next week could be beneficial.",
         confidence |-> "medium"]
    ELSE IF branch = 3 THEN
        [action_type |-> "hold",
         recommendations |->
            << <<"Predicted price drop of ", round(RAbs(price_change), 1),
                 "% - consider holding">>,
               <<"Wait for better market conditions before selling">>,
               <<"Consider storage options if possible">> >>,
         rationale |-> "Significant price drop expected. Holding and waiting for price recovery may be more profitable.",
         confidence |-> "high"]
    ELSE IF branch = 4 THEN
        [action_type |-> "hold",
         recommendations |->
            << <<"Moderate price decrease of ", round(RAbs(price_change), 1),
                 "% expected">>,
               <<"Monitor market closely over the next few days">> >>,
         rationale |-> "Moderate price decrease expected. Monitor market conditions before making selling decisions.",
         confidence |-> "medium"]
    ELSE
        [action_type |-> "hold",
         recommendations |->
            << <<"Stable prices expected">>,
               <<"No urgent action required - normal market conditions">> >>,
         rationale |-> "Price stability expected. Normal selling patterns can continue.",
         confidence |-> "medium"]

\* if req.predicted_price >= threshold * 0.8
threshold_warning_inclusive(predicted_price, threshold) ==
    IF RLeq(Rat(threshold * 8, 10), Rat(predicted_price, 1))
    THEN << <<"Price approaching threshold limit (", threshold,
              " KES/kg)">> >>
    ELSE << >>

\* if req.predicted_price > threshold * 0.8: recommendations.append(...)
threshold_warning(predicted_price, threshold) ==
    IF RLt(Rat(threshold * 8, 10), Rat(predicted_price, 1))
    THEN << <<"Price approaching threshold limit (", threshold,
              " KES/kg)">> >>
    ELSE << >>

get_recommendations(req) ==
    LET commodity_normalized == normalize_commodity(req.commodity) IN
    IF commodity_normalized \notin ALLOWED_COMMODITIES
    THEN [frame    |-> [commodity_normalized |-> commodity_normalized],
          response |-> commodity_not_supported(req)]
    ELSE IF previous_price_invalid(req.previous_price)
    THEN [frame    |-> [commodity_normalized |-> commodity_normalized],
          response |-> HTTPException(400,
                           <<"previous_price must be greater than 0">>)]
    ELSE
    LET price_change ==
            price_change_pct(req.predicted_price, req.previous_price)
        band == trend_band(price_change, req.pricetype)
        threshold == CROP_THRESHOLDS[commodity_normalized]
        recommendations ==
            band.recommendations
            \o threshold_warning(req.predicted_price, threshold)
    IN  [frame |-> [commodity_normalized |-> commodity_normalized,
                    price_change |-> price_change,
                    threshold |-> threshold],
         response |->
           [status_code     |-> 200,
            commodity       |-> req.commodity,
            market          |-> req.market,
            recommendations |-> recommendations,
            action_type     |-> band.action_type,
            confidence      |-> band.confidence,
            rationale       |-> band.rationale]]

(***************************************************************************)
(* POST /micro-market                                                      *)
(* radius_km is Optional[float]: None, or Some(hundredths of a km).        *)
(* estimated prices are in hundredths of a KES, distances in tenths of km. *)
(***************************************************************************)
None == << >>
Some(v) == <<v>>

MinOf(S) == CHOOSE x \in S : \A y \in S : x <= y
MaxOf(S) == CHOOSE x \in S : \A y \in S : y <= x

\* nearby_markets = [ {...}, {...}, {...} ]
nearby_markets_hub_farthest(region, base_price, radius) ==
    << [market_name     |-> <<region, " Central Market">>,
        distance_km     |-> 0,
        estimated_price |-> round(Rat(base_price * 9, 10), 2),
        market_type     |-> "wholesale"],
       [market_name     |-> <<region, " Retail Hub">>,
        distance_km     |-> round(Rat(radius * 6, 1000), 1),
        estimated_price |-> round(Rat(base_price * 11, 10), 2),
        market_type     |-> "retail"],
       [market_name     |-> <<"Near ", region, " Market">>,
        distance_km     |-> round(Rat(radius * 3, 1000), 1),
        estimated_price |-> round(Rat(base_price * 95, 100), 2),
        market_type     |-> "mixed"] >>

nearby_markets_central_dearest(region, base_price, radius) ==
    << [market_name     |-> <<region, " Central Market">>,
        distance_km     |-> 0,
        estimated_price |-> round(Rat(base_price * 11, 10), 2),
        market_type     |-> "wholesale"],
       [market_name     |-> <<region, " Retail Hub">>,
        distance_km     |-> round(Rat(radius * 3, 1000), 1),
        estimated_price |-> round(Rat(base_price * 9, 10), 2),
        market_type     |-> "retail"],
       [market_name     |-> <<"Near ", region, " Market">>,
        distance_km     |-> round(Rat(radius * 6, 1000), 1),
        estimated_price |-> round(Rat(base_price * 95, 100), 2),
        market_type     |-> "mixed"] >>

nearby_markets(region, base_price, radius) ==
    << [market_name     |-> <<region, " Central Market">>,
        distance_km     |-> 0,
        estimated_price |-> round(Rat(base_price * 9, 10), 2),
        market_type     |-> "wholesale"],
       [market_name     |-> <<region, " Retail Hub">>,
        distance_km     |-> round(Rat(radius * 3, 1000), 1),
        estimated_price |-> round(Rat(base_price * 11, 10), 2),
        market_type     |-> "retail"],
       [market_name     |-> <<"Near ", region, " Market">>,
        distance_km     |-> round(Rat(radius * 6, 1000), 1),
        estimated_price |-> round(Rat(base_price * 95, 100), 2),
        market_type     |-> "mixed"] >>

\* if price_spread >= 10
market_comparison_inclusive(price_spread) ==
    IF price_spread >= 10 * 100
    THEN <<"High price variance (", price_spread,
           " KES) across nearby markets. Shopping around could save money.">>
    ELSE <<"Relatively stable prices across nearby markets.">>

\* if price_spread > 10: ... else: ...
market_comparison(price_spread) ==
    IF price_spread > 10 * 100
    THEN <<"High price variance (", price_spread,
           " KES) across nearby markets. Shopping around could save money.">>
    ELSE <<"Relatively stable prices across nearby markets.">>

\* "recommended_market": nearby_markets[-1]["market_name"]
recommended_market_last(markets) == markets[Len(markets)].market_name

\* "recommended_market": nearby_markets[0]["market_name"]
recommended_market(markets) == markets[1].market_name

get_micro_market_forecast(req) ==
    LET commodity_normalized == normalize_commodity(req.commodity) IN
    IF commodity_normalized \notin ALLOWED_COMMODITIES
    THEN [frame    |-> [commodity_normalized |-> commodity_normalized],
          response |-> commodity_not_supported(req)]
    ELSE
    LET base_price == IF commodity_normalized \in DOMAIN CROP_THRESHOLDS
                      THEN CROP_THRESHOLDS[commodity_normalized] ELSE 50
    IN
    \* None * 0.3 raises TypeError, which no handler catches
    IF req.radius_km = None
    THEN [frame    |-> [commodity_normalized |-> commodity_normalized,
                        base_price |-> base_price],
          response |-> HTTPException(500, <<"Internal Server Error">>)]
    ELSE
    LET radius == req.radius_km[1]
        markets == nearby_markets(req.region, base_price, radius)
        prices == [i \in 1..Len(markets) |-> markets[i].estimated_price]
        avg_price == Rat(SumSeq(prices), 100 * Len(prices))
        min_price == MinOf({prices[i] : i \in 1..Len(prices)})
        max_price == MaxOf({prices[i] : i \in 1..Len(prices)})
        localized_forecast ==
            [average_price  |-> round(avg_price, 2),
             min_price      |-> min_price,
             max_price      |-> max_price,
             price_variance |-> max_price - min_price]
        price_spread == max_price - min_price
    IN  [frame |-> [commodity_normalized |-> commodity_normalized,
                    base_price |-> base_price,
                    price_spread |-> price_spread],
         response |->
           [status_code        |-> 200,
            commodity          |-> req.commodity,
            region             |-> req.region,
            nearby_markets     |-> markets,
            localized_forecast |-> localized_forecast,
            recommended_market |-> recommended_market(markets),
            market_comparison  |-> market_comparison(price_spread)]]

(***************************************************************************)
(* POST /explainability                                                    *)
(***************************************************************************)
\* dict.get(key, default)
dict_get(d, key, default) == IF key \in DOMAIN d THEN d[key] ELSE default

get_explainability(req) ==
    LET commodity_normalized == normalize_commodity(req.commodity) IN
    IF commodity_normalized \notin ALLOWED_COMMODITIES
    THEN [frame    |-> [commodity_normalized |-> commodity_normalized],
          response |-> commodity_not_supported(req)]
    ELSE
    LET \* importance in hundredths
        top_influencing_factors ==
            << [factor |-> "Previous Month Price", importance |-> 45,
                impact |-> "High",
                description |->
                    <<"Historical price of ",
                      dict_get(req.features, "previous_month_price", "N/A"),
                      " KES/kg strongly influences forecast">>],
               [factor |-> "Market Location", importance |-> 25,
                impact |-> "Medium",
                description |->
                    <<req.market,
                      " market has specific price patterns based on historical data">>],
               [factor |-> "Seasonality", importance |-> 15,
                impact |-> "Medium",
                description |->
                    <<"Time of year affects supply and demand dynamics">>],
               [factor |-> "Price Type", importance |-> 10,
                impact |-> "Low",
                description |->
                    <<dict_get(req.features, "pricetype", "retail"),
                      " pricing typically differs from wholesale">>],
               [factor |-> "Regional Factors", importance |-> 5,
                impact |-> "Low",
                description |->
                    <<"Regional economic and agricultural conditions">>] >>
        explanation_summary ==
            <<"The predicted price of ", req.predicted_price, " KES/kg for ",
              req.commodity, " at ", req.market,
              " is primarily influenced by the previous month's price (",
              dict_get(req.features, "previous_month_price", "N/A"),
              " KES/kg), which accounts for 45% of the prediction.">>
        confidence_factors ==
            [data_quality |-> "high", historical_accuracy |-> 85,
             sample_size |-> "adequate", market_volatility |-> "moderate",
             prediction_reliability |-> "good"]
    IN  [frame |-> [commodity_normalized |-> commodity_normalized],
         response |->
           [status_code             |-> 200,
            commodity               |-> req.commodity,
            market                  |-> req.market,
            predicted_price         |-> req.predicted_price,
            top_influencing_factors |-> top_influencing_factors,
            explanation_summary     |-> explanation_summary,
            confidence_factors      |-> confidence_factors]]

(***************************************************************************)
(* POST /feedback                                                          *)
(* every field of FeedbackRequest is Optional: None, or Some(value).       *)
(***************************************************************************)
\* the truth value Python gives an Optional[int] in a test: None and 0 are
\* false
truthy_int(opt) == opt # None /\ opt[1] # 0
\* the truth value of an Optional[str]: None and "" are false
truthy_str(opt) == opt # None /\ opt[1] # ""

\* not (1 <= rating <= 5)
off_scale(rating) == ~(1 <= rating /\ rating <= 5)

\* now is datetime.now().isoformat() and uuid8 is str(uuid.uuid4())[:8]
collect_feedback(req, now, uuid8) ==
    LET timestamp == IF truthy_str(req.timestamp) THEN req.timestamp[1] ELSE now
        feedback_id == <<"FB-", uuid8>>
        locals == [timestamp |-> timestamp, feedback_id |-> feedback_id]
    IN
    IF truthy_int(req.accuracy_rating) /\ off_scale(req.accuracy_rating[1])
    THEN [frame    |-> locals,
          response |-> HTTPException(400,
                           <<"accuracy_rating", " must be between 1 and 5">>)]
    ELSE IF truthy_int(req.usefulness_rating)
            /\ off_scale(req.usefulness_rating[1])
    THEN [frame    |-> locals,
          response |-> HTTPException(400,
                           <<"usefulness_rating", " must be between 1 and 5">>)]
    ELSE [frame    |-> locals,
          response |->
            [status_code |-> 200,
             feedback_id |-> feedback_id,
             status      |-> "success",
             message     |-> "Thank you for your feedback! Your input helps us improve our predictions.",
             timestamp   |-> timestamp]]

(***************************************************************************)
(* Requests.                                                               *)
(***************************************************************************)
CommodityInputs ==
    { s_cabbage, s_kale, s_onion, s_potatoes, s_tomatoes,
      s_Tomatoes, s_ONION_padded,
      s_Onions, s_onions, s_tomato, s_irish_potato, s_banana }
MarketInputs == { s_Gikomba, s_gikomba, s_Wakulima_padded, s_Kibera }
Admin1Inputs == { s_Nairobi, s_nairobi }
PricetypeInputs == { s_retail, s_WHOLESALE, s_bulk }
LagPriceInputs == { 30, 58 }

PredictRequests ==
    [date : {"2025-12-05"}, admin1 : Admin1Inputs, market : MarketInputs,
     commodity : CommodityInputs, pricetype : PricetypeInputs,
     previous_month_price : LagPriceInputs]

\* the commodity spellings sent to the other endpoints
OtherCommodityInputs ==
    { s_cabbage, s_kale, s_onion, s_potatoes, s_tomatoes,
      s_ONION_padded, s_Onions, s_banana }

RecommendationRequests ==
    [commodity : OtherCommodityInputs, market : {s_Gikomba},
     admin1 : {s_Nairobi},
     predicted_price : {18, 19, 21, 22, 40, 41, 90, 94, 95, 105, 106,
                        110, 120},
     previous_price : {-5, 0, 20, 100},
     pricetype : {s_Retail, s_WHOLESALE}]

MicroMarketRequests ==
    [commodity : OtherCommodityInputs, region : {"Nairobi", "Kisumu"},
     radius_km : {None, Some(0), Some(1250), Some(3000),
                  Some(DEFAULT_MICRO_MARKET_RADIUS_KM), Some(-1000)},
     date : {"2025-12-05"}]

ExplainabilityRequests ==
    [commodity : OtherCommodityInputs, market : {s_Wakulima},
     predicted_price : {65},
     features : { [previous_month_price |-> 58, pricetype |-> "retail"],
                  [pricetype |-> "wholesale"],
                  << >> }]

\* ratings on, around and off the 1-5 scale, or absent
RatingInputs == {None, Some(-1), Some(0), Some(1), Some(5), Some(6)}

FeedbackRequests ==
    [user_id : {None, Some("farmer123")},
     prediction_id : {Some("pred_001")},
     actual_price : {Some(67)},
     accuracy_rating : RatingInputs,
     usefulness_rating : RatingInputs,
     comments : {Some("Very helpful prediction!")},
     timestamp : {None, Some(""), Some("2025-12-05T10:00:00")}]

\* values of datetime.now().isoformat() and of str(uuid.uuid4())[:8]
ClockReadings == {"2025-12-06T08:30:00", "2025-12-06T08:30:01"}
UuidPrefixes == {"1b4e28ba", "9f8c2d3e"}

(***************************************************************************)
(* The state machine.  The artifacts are loaded once.  The application     *)
(* routes a request to its handler by path and method; the handler then    *)
(* runs to completion on the parsed body and its result (or the            *)
(* HTTPException it raised) is the response.                               *)
(***************************************************************************)
Routes ==
    {"predict", "recommendations", "micro-market", "explainability",
     "feedback"}

Idle == [op |-> "none"]
Pending == [status_code |-> 0]

Init ==
    /\ \E a \in ArtifactSets :
          /\ model = a.model
          /\ label_encoders = a.label_encoders
          /\ feature_columns = a.feature_columns
          /\ preprocess_info = a.preprocess_info
    /\ request = Idle
    /\ frame = Idle
    /\ response = Pending

\* a request is being routed and its handler has not run yet
Routed(op) == request = [op |-> op]

\* the router picks the handler of the next request
Route ==
    /\ request = Idle
    /\ \E op \in Routes : request' = [op |-> op]
    /\ UNCHANGED <<frame, response>>
    /\ UNCHANGED artifacts

\* the response is sent; the handler's locals are gone and the application
\* waits for the next request
Respond ==
    /\ "body" \in DOMAIN request
    /\ request' = Idle
    /\ frame' = Idle
    /\ response' = Pending
    /\ UNCHANGED artifacts

Predict ==
    /\ Routed("predict")
    /\ \E req \in PredictRequests :
        LET out == predict(req) IN
        /\ request' = [op |-> "predict", body |-> req]
        /\ frame' = out.frame
        /\ response' = out.response
    /\ UNCHANGED artifacts

GetRecommendations ==
    /\ Routed("recommendations")
    /\ \E req \in RecommendationRequests :
        LET out == get_recommendations(req) IN
        /\ request' = [op |-> "recommendations", body |-> req]
        /\ frame' = out.frame
        /\ response' = out.response
    /\ UNCHANGED artifacts

GetMicroMarketForecast ==
    /\ Routed("micro-market")
    /\ \E req \in MicroMarketRequests :
        LET out == get_micro_market_forecast(req) IN
        /\ request' = [op |-> "micro-market", body |-> req]
        /\ frame' = out.frame
        /\ response' = out.response
    /\ UNCHANGED artifacts

GetExplainability ==
    /\ Routed("explainability")
    /\ \E req \in ExplainabilityRequests :
        LET out == get_explainability(req) IN
        /\ request' = [op |-> "explainability", body |-> req]
        /\ frame' = out.frame
        /\ response' = out.response
    /\ UNCHANGED artifacts

CollectFeedback ==
    /\ Routed("feedback")
    /\ \E req \in FeedbackRequests, now \in ClockReadings,
          uuid8 \in UuidPrefixes :
        LET out == collect_feedback(req, now, uuid8) IN
        /\ request' = [op |-> "feedback", body |-> req]
        /\ frame' = out.frame
        /\ response' = out.response
    /\ UNCHANGED artifacts

Next ==
    \/ Route
    \/ Predict
    \/ GetRecommendations
    \/ GetMicroMarketForecast
    \/ GetExplainability
    \/ CollectFeedback
    \/ Respond

Spec == Init /\ [][Next]_vars

(***************************************************************************)
(* Concurrent requests.  The handlers are plain def functions, so FastAPI  *)
(* runs each request on a thread of its pool: several handler calls are in *)
(* flight at once and their reads of the module globals interleave.  Here  *)
(* request, frame and response hold one entry per pool thread; predict is  *)
(* split at its reads of the shared artifacts (the allowed-set check, the  *)
(* encoders and schema in build_feature_vector, the ensemble in            *)
(* rf_confidence), the two other handlers read only the threshold table.   *)
(***************************************************************************)
\* threads of the pool that handle requests at the same time
MaxWorkers == 2
Workers == 1..MaxWorkers

ConcurrentRoutes == {"predict", "recommendations", "micro-market"}

\* the artifact sets whose ensemble splits on the lag price around the
\* kale threshold
ConcurrentArtifactSets ==
    { a \in ArtifactSets :
        a.model = PairEnsemble(a.model[1].feature, CROP_THRESHOLDS[s_kale]) }

ConcurrentPredictRequests ==
    { r \in PredictRequests :
        /\ r.commodity \in {s_kale, s_banana}
        /\ r.market = s_Gikomba
        /\ r.admin1 = s_Nairobi
        /\ r.pricetype = s_retail }

ConcurrentRecommendationRequests ==
    { r \in RecommendationRequests :
        /\ r.commodity = s_tomatoes
        /\ r.predicted_price \in {40, 120}
        /\ r.previous_price = 100
        /\ r.pricetype = s_Retail }

ConcurrentMicroMarketRequests ==
    { r \in MicroMarketRequests :
        /\ r.commodity = s_cabbage
        /\ r.region = "Nairobi"
        /\ r.radius_km \in {None, Some(3000)} }

ConcurrentInit ==
    /\ \E a \in ConcurrentArtifactSets :
          /\ model = a.model
          /\ label_encoders = a.label_encoders
          /\ feature_columns = a.feature_columns
          /\ preprocess_info = a.preprocess_info
    /\ request = [w \in Workers |-> Idle]
    /\ frame = [w \in Workers |-> Idle]
    /\ response = [w \in Workers |-> Pending]

\* a request arrives and is handed to a free thread
WorkerAccept(w) ==
    /\ request[w] = Idle
    /\ \E op \in ConcurrentRoutes :
          request' = [request EXCEPT ![w] = [op |-> op]]
    /\ UNCHANGED <<frame, response>>
    /\ UNCHANGED artifacts

\* predict, up to the allowed-commodity check
WorkerValidate(w) ==
    /\ request[w] = [op |-> "predict"]
    /\ \E req \in ConcurrentPredictRequests :
        LET commodity_normalized == normalize_commodity(req.commodity) IN
        /\ request' = [request EXCEPT ![w] = [op |-> "predict", body |-> req]]
        /\ IF commodity_normalized \notin ALLOWED_COMMODITIES
           THEN /\ frame' = [frame EXCEPT ![w] =
                      [commodity_normalized |-> commodity_normalized]]
                /\ response' = [response EXCEPT ![w] =
                      commodity_not_supported(req)]
           ELSE /\ frame' = [frame EXCEPT ![w] =
                      [pc |-> "build_feature_vector",
                       commodity_normalized |-> commodity_normalized]]
                /\ UNCHANGED response
    /\ UNCHANGED artifacts

\* X = build_feature_vector(req)
WorkerBuild(w) ==
    /\ "pc" \in DOMAIN frame[w]
    /\ frame[w].pc = "build_feature_vector"
    /\ LET built == build_feature_vector(request[w].body) IN
       IF built.raised
       THEN /\ frame' = [frame EXCEPT ![w] =
                  [commodity_normalized |-> frame[w].commodity_normalized]]
            /\ response' = [response EXCEPT ![w] = built.exception]
       ELSE /\ frame' = [frame EXCEPT ![w] =
                  [pc |-> "rf_confidence",
                   commodity_normalized |-> frame[w].commodity_normalized,
                   X |-> built.X]]
            /\ UNCHANGED response
    /\ UNCHANGED request
    /\ UNCHANGED artifacts

\* the vector is held by one slot that all calls share
worker_vector_shared(frames, w) ==
    frames[CHOOSE v \in Workers :
              "pc" \in DOMAIN frames[v] /\ frames[v].pc = "rf_confidence"].X

\* X is a local of the call
worker_vector(frames, w) == frames[w].X

\* rf_confidence(model, X), the threshold check and the return
WorkerEstimate(w) ==
    /\ "pc" \in DOMAIN frame[w]
    /\ frame[w].pc = "rf_confidence"
    /\ LET out == predict_from_vector(request[w].body,
                                      frame[w].commodity_normalized,
                                      worker_vector(frame, w))
       IN  /\ frame' = [frame EXCEPT ![w] = out.frame]
           /\ response' = [response EXCEPT ![w] = out.response]
    /\ UNCHANGED request
    /\ UNCHANGED artifacts

WorkerRecommend(w) ==
    /\ request[w] = [op |-> "recommendations"]
    /\ \E req \in ConcurrentRecommendationRequests :
        LET out == get_recommendations(req) IN
        /\ request' = [request EXCEPT
                          ![w] = [op |-> "recommendations", body |-> req]]
        /\ frame' = [frame EXCEPT ![w] = out.frame]
        /\ response' = [response EXCEPT ![w] = out.response]
    /\ UNCHANGED artifacts

WorkerLocalize(w) ==
    /\ request[w] = [op |-> "micro-market"]
    /\ \E req \in ConcurrentMicroMarketRequests :
        LET out == get_micro_market_forecast(req) IN
        /\ request' = [request EXCEPT
                          ![w] = [op |-> "micro-market", body |-> req]]
        /\ frame' = [frame EXCEPT ![w] = out.frame]
        /\ response' = [response EXCEPT ![w] = out.response]
    /\ UNCHANGED artifacts

\* the response is sent and the thread returns to the pool
WorkerReply(w) ==
    /\ response[w] # Pending
    /\ request' = [request EXCEPT ![w] = Idle]
    /\ frame' = [frame EXCEPT ![w] = Idle]
    /\ response' = [response EXCEPT ![w] = Pending]
    /\ UNCHANGED artifacts

ConcurrentNext ==
    \E w \in Workers :
        \/ WorkerAccept(w)
        \/ WorkerValidate(w)
        \/ WorkerBuild(w)
        \/ WorkerEstimate(w)
        \/ WorkerRecommend(w)
        \/ WorkerLocalize(w)
        \/ WorkerReply(w)

ConcurrentSpec == ConcurrentInit /\ [][ConcurrentNext]_vars

(***************************************************************************)
(* Properties.                                                             *)
(***************************************************************************)
\* the handler of op has answered the request in `request`
Answered(op) == request.op = op /\ "body" \in DOMAIN request
\* ... with a result
Succeeded(op) == Answered(op) /\ response.status_code = 200
\* ... with the 400 error of the allowed-commodity check
RejectedCommodity ==
    /\ response.status_code = 400
    /\ response.detail[1] = "Commodity '"
\* ... with the 400 error of the label-encoding loop, for column col
RejectedCategory(col) ==
    /\ response.status_code = 400
    /\ response.detail[1] = "Invalid "
    /\ response.detail[2] = col
\* ... with the 400 error of the previous-price check
RejectedPreviousPrice ==
    /\ response.status_code = 400
    /\ response.detail[1] = "previous_price must be greater than 0"

\* the five canonical commodity names
FixedFive == {s_cabbage, s_kale, s_onion, s_potatoes, s_tomatoes}
\* the request spellings that are a canonical name up to letter case and
\* surrounding whitespace
CaseVariants == {s_Tomatoes, s_ONION_padded}
\* the request spellings that are an alias or a plural of a canonical name
AliasSpellings == {s_Onions, s_onions, s_tomato, s_irish_potato}

----------------------------------------------------------------------------
\* C1: whenever predict returns an estimate, low <= mean <= high, so that
\* lower_bound <= prediction_per_kg <= upper_bound and the reported error
\* margin (high - mean) is not negative.
C1_MeanWithinInterval ==
    Succeeded("predict") =>
        /\ RLeq(frame.lo, frame.pred)
        /\ RLeq(frame.pred, frame.hi)
        /\ response.lower_bound <= response.prediction_per_kg
        /\ response.prediction_per_kg <= response.upper_bound
        /\ response.error_margin[2] >= 0

----------------------------------------------------------------------------
\* C2: for a supported commodity and previous_price > 0, get_recommendations
\* returns a result whose price change is (predicted - previous) / previous
\* * 100 and whose (action, confidence) is the one of the band table:
\* > 10 sell/high; (5, 10] sell/medium; < -10 hold/high; [-10, -5)
\* hold/medium; [-5, 5] hold/medium.
C2_BandTable ==
    (Answered("recommendations")
        /\ request.body.commodity \in FixedFive
        /\ request.body.previous_price > 0) =>
    LET p == request.body.predicted_price
        q == request.body.previous_price
        \* pct_change compared with k, multiplied through by q > 0
        gt(k) == (p - q) * 100 > k * q
        lt(k) == (p - q) * 100 < k * q
        is(a, c) == response.action_type = a /\ response.confidence = c
    IN  /\ response.status_code = 200
        /\ frame.price_change.n * q = (p - q) * 100 * frame.price_change.d
        /\ gt(10) => is("sell", "high")
        /\ (gt(5) /\ ~gt(10)) => is("sell", "medium")
        /\ lt(-10) => is("hold", "high")
        /\ (~lt(-10) /\ lt(-5)) => is("hold", "medium")
        /\ (~lt(-5) /\ ~gt(5)) => is("hold", "medium")

\* the boundary of the stable band: predicted 95 against previous 100
C2_Witness ==
    /\ Succeeded("recommendations")
    /\ request.body.predicted_price = 95
    /\ request.body.previous_price = 100
    /\ response.action_type = "hold"
    /\ response.confidence = "medium"

----------------------------------------------------------------------------
\* C3: predict looks up the fixed threshold of the commodity (cabbage 126,
\* kale 50, onion 13, potatoes 50, tomatoes 64); unreasonable is true iff
\* the mean estimate is strictly greater than it; the note is "Prediction
\* within normal range." iff unreasonable is false and otherwise the flagged
\* message naming the threshold.
C3_ThresholdTable ==
    (s_cabbage :> 126) @@ (s_kale :> 50) @@ (s_onion :> 13) @@
    (s_potatoes :> 50) @@ (s_tomatoes :> 64)

C3_ThresholdRule ==
    (Succeeded("predict") /\ request.body.commodity \in FixedFive) =>
    LET t == C3_ThresholdTable[request.body.commodity] IN
        /\ frame.threshold = t
        /\ response.unreasonable <=> (frame.pred.n > t * frame.pred.d)
        /\ ~response.unreasonable <=>
              (response.note = <<"Prediction within normal range.">>)
        /\ response.unreasonable =>
              /\ Len(response.note) = 3
              /\ response.note[2] = t

\* a mean estimate equal to the threshold is reported as reasonable
C3_Witness ==
    /\ Succeeded("predict")
    /\ request.body.commodity \in FixedFive
    /\ frame.pred.n = frame.threshold * frame.pred.d
    /\ ~response.unreasonable

----------------------------------------------------------------------------
\* C4: for a supported commodity, get_recommendations fails with the
\* previous-price error (400) iff previous_price <= 0; a failing call
\* performs no division and returns no recommendation record.
C4_PreviousPriceGuard ==
    (Answered("recommendations") /\ request.body.commodity \in FixedFive) =>
        /\ RejectedPreviousPrice <=> (request.body.previous_price <= 0)
        /\ RejectedPreviousPrice =>
              /\ "price_change" \notin DOMAIN frame
              /\ "action_type" \notin DOMAIN response
              /\ "recommendations" \notin DOMAIN response

\* a negative previous price is rejected
C4_Witness ==
    /\ Answered("recommendations")
    /\ request.body.commodity \in FixedFive
    /\ request.body.previous_price < 0
    /\ RejectedPreviousPrice

----------------------------------------------------------------------------
----------------------------------------------------------------------------
\* the canonical commodity a request spelling stands for in the alias table
\* and under case folding
CanonicalOf ==
    (s_Onions :> s_onion) @@ (s_onions :> s_onion) @@
    (s_tomato :> s_tomatoes) @@ (s_irish_potato :> s_potatoes) @@
    (s_Tomatoes :> s_tomatoes) @@ (s_ONION_padded :> s_onion)

\* the request in `request` answered by predict with the commodity spelled
\* canonically: what it returns, with the request's own spelling echoed
SameAsCanonical ==
    LET canon == CanonicalOf[request.body.commodity]
        alone == predict([request.body EXCEPT !.commodity = canon])
    IN  /\ frame = alone.frame
        /\ response = IF alone.response.status_code = 200
                      THEN [alone.response EXCEPT
                               !.commodity = request.body.commodity]
                      ELSE alone.response

\* C6 as claimed: a commodity given as a known alias or plural is resolved
\* to the canonical commodity, so the request is accepted and produces the
\* same threshold, encoding and result as with the canonical name.
C6_AliasResolved ==
    (Answered("predict") /\ request.body.commodity \in AliasSpellings) =>
        /\ ~RejectedCommodity
        /\ SameAsCanonical

\* C6 as amended: there is no alias table.  predict rejects an alias or
\* plural with the 400 "not supported" error; a spelling that differs from a
\* canonical name only in letter case or surrounding whitespace is accepted
\* and produces the same threshold, encoding and result as the canonical
\* name.
C6_CaseVariantsOnly ==
    Answered("predict") =>
        /\ (request.body.commodity \in AliasSpellings) => RejectedCommodity
        /\ (request.body.commodity \in CaseVariants) =>
              /\ ~RejectedCommodity
              /\ SameAsCanonical

\* " ONION " is accepted and priced
C6_Witness ==
    /\ Succeeded("predict")
    /\ request.body.commodity = s_ONION_padded
    /\ frame.threshold = 13

----------------------------------------------------------------------------
\* value equals some entry of col's vocabulary up to letter case, after
\* trimming
MatchesIgnoringCase(col, raw) ==
    \E i \in 1..Len(label_encoders[col]) :
        str_lower(label_encoders[col][i]) = str_lower(str_strip(raw))
\* the 1-based slots of the schema that hold column col
SlotsOf(col) == {j \in 1..Len(feature_columns) : feature_columns[j] = col}

\* C7 as claimed: a market or admin1 that equals a vocabulary entry up to
\* letter case is given the vocabulary's casing, encoded to that entry's
\* code and not rejected.
C7_CaseInsensitiveMatch ==
    (Answered("predict") /\ ~RejectedCommodity) =>
        \A col \in {"market", "admin1"} :
            MatchesIgnoringCase(col, request.body[col]) =>
                ~RejectedCategory(col)

\* C7 as amended: market and admin1 are trimmed and nothing else.  A
\* request is encoded only if the trimmed value is a vocabulary entry in
\* exactly its casing, and then to that entry's code; any other value,
\* one that differs only in letter case included, goes verbatim to the
\* strict encode step, whose 400 error quotes it and lists the vocabulary.
C7_ExactMatchAfterTrim ==
    (Answered("predict") /\ ~RejectedCommodity) =>
        \A col \in {"market", "admin1"} :
            LET classes_ == label_encoders[col]
                trimmed == str_strip(request.body[col])
            IN  /\ Succeeded("predict") =>
                      /\ InSeq(trimmed, classes_)
                      /\ \A j \in SlotsOf(col) :
                            classes_[frame.X[j] + 1] = trimmed
                /\ RejectedCategory(col) =>
                      /\ ~InSeq(trimmed, classes_)
                      /\ response.detail[4] = trimmed
                      /\ response.detail[6] = classes_
                /\ ~InSeq(trimmed, classes_) => ~Succeeded("predict")

\* "gikomba" is rejected by a vocabulary that holds "Gikomba"
C7_Witness ==
    /\ Answered("predict")
    /\ request.body.market = s_gikomba
    /\ InSeq(s_Gikomba, label_encoders["market"])
    /\ RejectedCategory("market")
    /\ response.detail[4] = s_gikomba

----------------------------------------------------------------------------
\* the keys build_feature_vector sets in its data map
BuilderKeys == {"price_lag_1", "commodity", "market", "admin1", "pricetype"}
\* the positions of the categorical-column list that the builder encodes
EncodedPositions ==
    {i \in 1..Len(preprocess_info.categorical_columns) :
        preprocess_info.categorical_columns[i]
            \in {"commodity", "market", "admin1", "pricetype"}}

\* C8: once the commodity is allowed, either some listed categorical
\* column's normalized value is outside its vocabulary, and then predict
\* fails with the 400 error of the first such column in list order, carrying
\* that column's whole vocabulary, with no vector and no prediction; or
\* every value is in its vocabulary and every such slot of the vector holds
\* the value's code.
C8_AllOrNothing ==
    (Answered("predict") /\ ~RejectedCommodity) =>
    LET cols == preprocess_info.categorical_columns
        norm == normalize_input(request.body)
        bad  == {i \in EncodedPositions :
                    ~InSeq(norm[cols[i]], label_encoders[cols[i]])}
    IN  IF bad # {}
        THEN LET first == cols[MinOf(bad)] IN
             /\ response = HTTPException(400,
                    <<"Invalid ", first, ": '", norm[first],
                      "'. Valid values: ", label_encoders[first]>>)
             /\ "X" \notin DOMAIN frame
             /\ "prediction_per_kg" \notin DOMAIN response
        ELSE /\ response.status_code = 200
             /\ \A i \in EncodedPositions : \A j \in SlotsOf(cols[i]) :
                   /\ frame.X[j] \in 0..(Len(label_encoders[cols[i]]) - 1)
                   /\ label_encoders[cols[i]][frame.X[j] + 1] = norm[cols[i]]

\* market and pricetype are both unknown; the error names the market, which
\* comes first in the list
C8_Witness ==
    /\ Answered("predict")
    /\ request.body.market = s_Kibera
    /\ request.body.pricetype = s_bulk
    /\ RejectedCategory("market")

----------------------------------------------------------------------------
\* C9: a returned vector has one slot per schema column, in schema order:
\* the price_lag_1 slot holds previous_month_price, the slot of an encoded
\* categorical column holds its code, and a column the builder did not set
\* holds 0; a key of the builder that the schema lacks has no slot.
C9_SchemaProjection ==
    Succeeded("predict") =>
    LET cols == preprocess_info.categorical_columns
        norm == normalize_input(request.body)
    IN  /\ DOMAIN frame.X = 1..Len(feature_columns)
        /\ \A j \in 1..Len(feature_columns) :
            LET col == feature_columns[j] IN
            /\ col = "price_lag_1" =>
                  frame.X[j] = request.body.previous_month_price
            /\ (\E i \in EncodedPositions : cols[i] = col) =>
                  label_encoders[col][frame.X[j] + 1] = norm[col]
            /\ col \notin BuilderKeys => frame.X[j] = 0

\* a schema without admin1 and with a column the builder never sets
C9_Witness ==
    /\ Succeeded("predict")
    /\ SlotsOf("admin1") = {}
    /\ \E j \in SlotsOf("price_lag_2") : frame.X[j] = 0
    /\ \E j \in SlotsOf("price_lag_1") : frame.X[j] = 58

----------------------------------------------------------------------------
\* the member predictions on the vector of the answered request
MemberPredictions == [i \in 1..Len(model) |-> tree_predict(model[i], frame.X)]

\* the k-th (0-based) order statistic of the samples a, by counting
OrderStatistic(a, k) ==
    CHOOSE v \in {a[i] : i \in 1..Len(a)} :
        /\ Cardinality({i \in 1..Len(a) : a[i] < v}) <= k
        /\ k < Cardinality({i \in 1..Len(a) : a[i] <= v})

\* the q-th percentile of a under linear interpolation: with index
\* q/100 * (n - 1) = k + g/100, the value x_k + g/100 * (x_(k+1) - x_k)
LinearInterpolation(a, q) ==
    LET n == Len(a)
        k == (q * (n - 1)) \div 100
        g == (q * (n - 1)) % 100
        x_k == OrderStatistic(a, k)
        x_k1 == OrderStatistic(a, IF k + 1 < n THEN k + 1 ELSE k)
    IN  Rat(100 * x_k + g * (x_k1 - x_k), 100)

\* the members predict 10, 20, ..., 100 in some order
DecadeMembers ==
    /\ Len(model) = 10
    /\ {MemberPredictions[i] : i \in 1..10} = {10 * k : k \in 1..10}

Reversed(a) == [i \in 1..Len(a) |-> a[Len(a) + 1 - i]]

\* C10 as claimed: low and high are the 5th and 95th percentiles under
\* linear interpolation between order statistics, whatever the member
\* order; for the members 10, 20, ..., 100, low = 14.5 and high = 94.5.
C10_DecadeAsClaimed ==
    Succeeded("predict") =>
        /\ REq(frame.lo, LinearInterpolation(MemberPredictions, 5))
        /\ REq(frame.hi, LinearInterpolation(MemberPredictions, 95))
        /\ DecadeMembers => /\ REq(frame.lo, Rat(145, 10))
                            /\ REq(frame.hi, Rat(945, 10))

\* C10 as amended: the same, with high = 95.5 for the members 10, ..., 100
\* (index 0.95 * 9 = 8.55, so 90 + 0.55 * (100 - 90)).
C10_LinearInterpolation ==
    Succeeded("predict") =>
        /\ REq(frame.lo, LinearInterpolation(MemberPredictions, 5))
        /\ REq(frame.hi, LinearInterpolation(MemberPredictions, 95))
        /\ REq(frame.lo, percentile(Reversed(MemberPredictions), 5))
        /\ REq(frame.hi, percentile(Reversed(MemberPredictions), 95))
        /\ DecadeMembers => /\ REq(frame.lo, Rat(145, 10))
                            /\ REq(frame.hi, Rat(955, 10))

\* the ten members queried in an order that is not sorted
C10_Witness ==
    /\ Succeeded("predict")
    /\ DecadeMembers
    /\ MemberPredictions[1] = 70
    /\ REq(frame.lo, Rat(145, 10))
    /\ REq(frame.hi, Rat(955, 10))

(***************************************************************************)
(* POST /micro-market: the three synthesized markets.                      *)
(***************************************************************************)
\* the threshold of the commodity of the request being answered
BaseOf(req) == CROP_THRESHOLDS[normalize_commodity(req.commodity)]

\* the markets of the response are the three named ones, in order, priced
\* 0.9, 1.1 and 0.95 times the base (hundredths of a KES)
ThreeNamedMarkets ==
    LET markets == response.nearby_markets
        region == request.body.region
        base == BaseOf(request.body)
    IN  /\ Len(markets) = 3
        /\ markets[1].market_name = <<region, " Central Market">>
        /\ markets[2].market_name = <<region, " Retail Hub">>
        /\ markets[3].market_name = <<"Near ", region, " Market">>
        /\ markets[1].distance_km = 0
        /\ markets[1].estimated_price * 10 = 9 * base * 100
        /\ markets[2].estimated_price * 10 = 11 * base * 100
        /\ markets[3].estimated_price * 100 = 95 * base * 100

\* |a - b| for integers
AbsDiff(a, b) == IF a >= b THEN a - b ELSE b - a

\* C11 as claimed: every successful micro-market call lists the Central
\* Market at distance 0 priced 0.9*base, the Retail Hub at distance exactly
\* 0.3*radius priced 1.1*base and the generic nearby market at distance
\* exactly 0.6*radius priced 0.95*base.
C11_ExactDistances ==
    Succeeded("micro-market") =>
        LET markets == response.nearby_markets
            radius == request.body.radius_km[1]
        IN  /\ ThreeNamedMarkets
            \* tenths of a km against hundredths of a km
            /\ markets[2].distance_km * 100 = 3 * radius
            /\ markets[3].distance_km * 100 = 6 * radius

\* C11 as amended: the same three markets, with the two distances being
\* 0.3*radius and 0.6*radius rounded to one decimal place (at most half a
\* tenth of a km away from the exact product); tomatoes with radius 30 give
\* distances 0, 9.0, 18.0 and prices 57.6, 70.4, 60.8.
C11_RoundedDistances ==
    Succeeded("micro-market") =>
        LET markets == response.nearby_markets
            radius == request.body.radius_km[1]
        IN  /\ ThreeNamedMarkets
            /\ AbsDiff(markets[2].distance_km * 100, 3 * radius) <= 50
            /\ AbsDiff(markets[3].distance_km * 100, 6 * radius) <= 50
            /\ markets[2].distance_km = round(Rat(3 * radius, 1000), 1)
            /\ markets[3].distance_km = round(Rat(6 * radius, 1000), 1)
            /\ (/\ normalize_commodity(request.body.commodity) = s_tomatoes
                /\ radius = 3000)
               => /\ markets[2].distance_km = 90
                  /\ markets[3].distance_km = 180
                  /\ markets[1].estimated_price = 5760
                  /\ markets[2].estimated_price = 7040
                  /\ markets[3].estimated_price = 6080

\* a radius of 12.5 km: the Retail Hub is listed at 3.8 km, not 3.75 km
C11_Witness ==
    /\ Succeeded("micro-market")
    /\ request.body.radius_km = Some(1250)
    /\ response.nearby_markets[2].distance_km = 38
    /\ response.nearby_markets[3].distance_km = 75

(***************************************************************************)
(* POST /micro-market: the derived statistics and the comparison string.   *)
(***************************************************************************)
\* the three estimated prices of the response, in listing order
EstimatedPrices ==
    [i \in 1..Len(response.nearby_markets) |->
        response.nearby_markets[i].estimated_price]

HighVarianceMessage ==
    /\ Len(response.market_comparison) = 3
    /\ response.market_comparison[1] = "High price variance ("
    /\ response.market_comparison[2] = response.localized_forecast.price_variance
    /\ response.market_comparison[3] =
         " KES) across nearby markets. Shopping around could save money."

StableMessage ==
    response.market_comparison =
        <<"Relatively stable prices across nearby markets.">>

\* min, max and spread are those of the three prices; the comparison is the
\* high-variance message iff the spread exceeds 10 KES, else the stable one;
\* over the threshold table that is exactly cabbage and tomatoes
SpreadRule ==
    LET lf == response.localized_forecast
        prices == EstimatedPrices
        commodity == normalize_commodity(request.body.commodity)
    IN  /\ \E i \in 1..Len(prices) : lf.min_price = prices[i]
        /\ \A i \in 1..Len(prices) : lf.min_price <= prices[i]
        /\ \E i \in 1..Len(prices) : lf.max_price = prices[i]
        /\ \A i \in 1..Len(prices) : prices[i] <= lf.max_price
        /\ lf.price_variance = lf.max_price - lf.min_price
        /\ HighVarianceMessage <=> lf.price_variance > 10 * 100
        /\ ~HighVarianceMessage => StableMessage
        /\ commodity \in {s_kale, s_potatoes}
              => lf.price_variance = 10 * 100 /\ StableMessage
        /\ HighVarianceMessage <=> commodity \in {s_cabbage, s_tomatoes}

\* C12 as claimed: on every successful micro-market call the average is the
\* mean of the three estimated prices, min, max and spread = max - min are
\* theirs, and the high-variance message is emitted iff spread > 10, which
\* is exactly for cabbage and tomatoes (kale and potatoes, spread 10, are
\* stable), whatever the region and radius.
C12_ExactMean ==
    Succeeded("micro-market") =>
        /\ SpreadRule
        /\ response.localized_forecast.average_price * Len(EstimatedPrices)
             = SumSeq(EstimatedPrices)

\* C12 as amended: the same, with the average being the mean of the three
\* prices rounded to two decimal places (within half a hundredth of a KES
\* of the mean).
C12_RoundedMean ==
    Succeeded("micro-market") =>
        /\ SpreadRule
        /\ 2 * AbsDiff(response.localized_forecast.average_price
                          * Len(EstimatedPrices),
                       SumSeq(EstimatedPrices))
             <= Len(EstimatedPrices)

\* kale: prices 45.0, 55.0, 47.5, spread exactly 10, average 49.17
C12_Witness ==
    /\ Succeeded("micro-market")
    /\ normalize_commodity(request.body.commodity) = s_kale
    /\ response.localized_forecast.price_variance = 1000
    /\ response.localized_forecast.average_price = 4917
    /\ StableMessage

(***************************************************************************)
(* POST /recommendations: the messages list.                               *)
(***************************************************************************)
ThresholdWarningLine(commodity) ==
    <<"Price approaching threshold limit (",
      CROP_THRESHOLDS[normalize_commodity(commodity)], " KES/kg)">>

RetailLine == <<"Retail prices are high - good time to market your produce">>

\* the text a band's first guidance line starts with
BandLead(gt10, gt5, lt10, lt5) ==
    IF gt10 THEN "Predicted price increase of "
    ELSE IF gt5 THEN "Moderate price increase of "
    ELSE IF lt10 THEN "Predicted price drop of "
    ELSE IF lt5 THEN "Moderate price decrease of "
    ELSE "Stable prices expected"

\* C13: the messages of a successful get_recommendations are the band's
\* guidance lines, 2 or 3 of them (3 only in the pct_change > 10 band with
\* a retail price type and in the pct_change < -10 band), followed by the
\* threshold-warning line as last element iff predicted_price > 0.8 *
\* threshold, whatever the band; the retail line appears in no band other
\* than pct_change > 10.
C13_MessagesList ==
    Succeeded("recommendations") =>
    LET req == request.body
        p == req.predicted_price
        q == req.previous_price
        gt(k) == (p - q) * 100 > k * q
        lt(k) == (p - q) * 100 < k * q
        retail == str_lower(req.pricetype) = s_retail
        warned == p * 10 > 8 * CROP_THRESHOLDS[normalize_commodity(req.commodity)]
        guidance == IF (gt(10) /\ retail) \/ (~gt(5) /\ lt(-10))
                    THEN 3 ELSE 2
        messages == response.recommendations
        warning == ThresholdWarningLine(req.commodity)
    IN  /\ q > 0
        /\ Len(messages) = guidance + (IF warned THEN 1 ELSE 0)
        /\ Len(messages) >= 2
        /\ messages[1][1] = BandLead(gt(10), gt(5), lt(-10), lt(-5))
        /\ \A i \in 1..guidance : messages[i] # warning
        /\ warned <=> messages[Len(messages)] = warning
        /\ (\E i \in 1..Len(messages) : messages[i] = RetailLine)
              <=> (gt(10) /\ retail)
        /\ (gt(10) /\ retail) => messages[3] = RetailLine

\* a price drop of more than 10% to a price above 0.8 * threshold: three
\* guidance lines and the warning, with a retail price type adding nothing
C13_Witness ==
    /\ Succeeded("recommendations")
    /\ str_lower(request.body.pricetype) = s_retail
    /\ RLt(frame.price_change, Rat(-10, 1))
    /\ Len(response.recommendations) = 4
    /\ response.recommendations[3] = <<"Consider storage options if possible">>
    /\ response.recommendations[4] = ThresholdWarningLine(request.body.commodity)

(***************************************************************************)
(* POST /micro-market: the recommended market.                             *)
(***************************************************************************)
\* C14: every successful micro-market call recommends the first-listed
\* market, "<region> Central Market", whatever the commodity, the radius
\* and the estimated prices.
C14_FirstListedRecommended ==
    Succeeded("micro-market") =>
        /\ response.recommended_market =
              <<request.body.region, " Central Market">>
        /\ Len(response.nearby_markets) >= 1
        /\ response.recommended_market =
              response.nearby_markets[1].market_name

\* a negative radius lists the two other markets at negative distances,
\* nearer than the Central Market, which is recommended all the same
C14_Witness ==
    /\ Succeeded("micro-market")
    /\ request.body.region = "Kisumu"
    /\ response.nearby_markets[2].distance_km < 0
    /\ response.nearby_markets[3].distance_km
          < response.nearby_markets[1].distance_km
    /\ response.recommended_market = <<"Kisumu", " Central Market">>

(***************************************************************************)
(* Concurrent requests: isolation.                                         *)
(***************************************************************************)
\* the handler call of a request, run alone against the loaded artifacts
RunAlone(r) ==
    IF r.op = "predict" THEN predict(r.body)
    ELSE IF r.op = "recommendations" THEN get_recommendations(r.body)
    ELSE get_micro_market_forecast(r.body)

\* every thread that has an outcome has the outcome of its own request run
\* alone, and a predict call in flight holds the vector of its own request
OutcomesIsolated ==
    \A w \in Workers :
        /\ response[w] # Pending
              => /\ "body" \in DOMAIN request[w]
                 /\ response[w] = RunAlone(request[w]).response
        /\ ("pc" \in DOMAIN frame[w] /\ frame[w].pc = "rf_confidence")
              => frame[w].X = build_feature_vector(request[w].body).X

\* C15: under every interleaving of concurrent predict, recommendations and
\* micro-market calls no step changes the shared artifacts (ensemble,
\* vocabularies, column schema, preprocessing info; the threshold table and
\* the allowed set are never assigned either), and the outcome of each
\* request, result or error, is the outcome of the same request run alone.
C15_SharedStateReadOnly ==
    /\ [][artifacts' = artifacts]_vars
    /\ []OutcomesIsolated

\* two predict calls with different lag prices interleaved: the first has
\* its result while the second, accepted meanwhile, still holds its vector
C15_Witness ==
    /\ response[1] # Pending
    /\ response[1].status_code = 200
    /\ request[1].op = "predict"
    /\ "pc" \in DOMAIN frame[2]
    /\ frame[2].pc = "rf_confidence"
    /\ request[2].body.previous_month_price
          # request[1].body.previous_month_price

(***************************************************************************)
(* POST /feedback: the rating checks.                                      *)
(***************************************************************************)
\* a rating that is provided (not null) and lies outside 1..5
ProvidedOffScale(rating) ==
    rating # None /\ ~(rating[1] \in 1..5)

RejectedRating(name) ==
    /\ response.status_code = 400
    /\ response.detail = <<name, " must be between 1 and 5">>

FeedbackAcknowledged ==
    /\ response.status_code = 200
    /\ response.status = "success"

\* C16: collect_feedback rejects every request whose accuracy_rating or
\* usefulness_rating is provided and outside the 1-5 scale, 0 and negative
\* values included, with a 400 error naming that rating and without a
\* success acknowledgement; a request with both ratings absent or within
\* 1..5 succeeds with status "success".
C16_RatingsValidated ==
    Answered("feedback") =>
        LET accuracy == request.body.accuracy_rating
            usefulness == request.body.usefulness_rating
        IN  /\ ProvidedOffScale(accuracy)
                  => RejectedRating("accuracy_rating")
            /\ (~ProvidedOffScale(accuracy) /\ ProvidedOffScale(usefulness))
                  => RejectedRating("usefulness_rating")
            /\ (~ProvidedOffScale(accuracy) /\ ~ProvidedOffScale(usefulness))
                  => FeedbackAcknowledged

(***************************************************************************)
(* POST /recommendations: the values action and confidence take.           *)
(***************************************************************************)
\* C17: every successful get_recommendations has action_type in {sell,
\* hold} and confidence in {medium, high} ("buy" and "low" are never
\* returned); the action is "sell" iff pct_change > 5 and the confidence is
\* "high" iff |pct_change| > 10.
C17_ReachableDomains ==
    Succeeded("recommendations") =>
        LET p == request.body.predicted_price
            q == request.body.previous_price
            \* pct_change against k, multiplied through by q > 0
            gt(k) == (p - q) * 100 > k * q
            lt(k) == (p - q) * 100 < k * q
        IN  /\ q > 0
            /\ response.action_type \in {"sell", "hold"}
            /\ response.confidence \in {"medium", "high"}
            /\ response.action_type # "buy"
            /\ response.confidence # "low"
            /\ response.action_type = "sell" <=> gt(5)
            /\ response.confidence = "high" <=> (gt(10) \/ lt(-10))

\* a drop of more than 10%: the advice is to hold, with high confidence
C17_Witness ==
    /\ Succeeded("recommendations")
    /\ RLt(frame.price_change, Rat(-10, 1))
    /\ response.action_type = "hold"
    /\ response.confidence = "high"

(***************************************************************************)
(* POST /micro-market: the recommended market is the cheapest.             *)
(***************************************************************************)
\* C18: on every successful micro-market call the first-listed Central
\* Market has the minimum estimated price of the three: min_price is its
\* price (0.9*base), max_price is the Retail Hub's price (1.1*base) and
\* min_price <= average_price <= max_price, for every region and radius.
C18_CentralIsCheapest ==
    Succeeded("micro-market") =>
        LET markets == response.nearby_markets
            lf == response.localized_forecast
            base == BaseOf(request.body)
        IN  /\ base > 0
            /\ Len(markets) = 3
            /\ markets[1].market_name = response.recommended_market
            /\ \A i \in 1..Len(markets) :
                  markets[1].estimated_price <= markets[i].estimated_price
            /\ lf.min_price = markets[1].estimated_price
            /\ lf.min_price * 10 = 9 * base * 100
            /\ lf.max_price = markets[2].estimated_price
            /\ lf.max_price * 10 = 11 * base * 100
            /\ lf.min_price <= lf.average_price
            /\ lf.average_price <= lf.max_price

\* onion in Kisumu: Central Market 11.7, Retail Hub 14.3, average 12.78
C18_Witness ==
    /\ Succeeded("micro-market")
    /\ normalize_commodity(request.body.commodity) = s_onion
    /\ request.body.region = "Kisumu"
    /\ response.localized_forecast.min_price = 1170
    /\ response.localized_forecast.max_price = 1430
    /\ response.localized_forecast.average_price = 1278
    /\ response.nearby_markets[1].estimated_price = 1170

====
